---- MODULE Spec2Model ----
(***************************************************************************)
(* Model of parser4.py: the "Run Audit" handler, the report fetcher        *)
(* (fetch_json_from_api), the question generator (generate_questions) and  *)
(* the two-pass audit classifier (parse_lighthouse_json).                  *)
(*                                                                         *)
(* Python values are represented as follows.                               *)
(*   - a str that the code splits or strips is a sequence of characters;   *)
(*   - a dict that the code iterates is the sequence of its items, in      *)
(*     insertion order (keys are distinct);                                *)
(*   - a formatted number "{x:.2f}" is the record [whole, cents];          *)
(*   - the value returned by generate_questions is a record that keeps     *)
(*     its Python type in the field kind.                                  *)
(***************************************************************************)
EXTENDS Integers, Sequences, FiniteSets

VARIABLES
  pagespeedKey,             \* PAGESPEED_API_KEY is set (truthy)
  awsCreds,                 \* AWS_ACCESS_KEY / AWS_SECRET_KEY are available
  pc,                       \* position of the script run
  data,                     \* parse_lighthouse_json: data
  audits,                   \* parse_lighthouse_json: audits (items, in order)
  i,                        \* index of the next item of the running for loop
  total_time_saved_admin,
  total_time_saved_manual,
  blocks,                   \* values shown by st.text_area, in call order
  stErrors,                 \* messages shown by st.error
  ret,                      \* return value of parse_lighthouse_json
  exception,                \* uncaught exception that ended the run, or ""
  netCalls,                 \* outbound requests issued, in order
  genCalls,                 \* calls of generate_questions, in order
  adds,                     \* history of the += on the two totals
  genIn,                    \* question generator on its own: outcome of llm.invoke
  genOut,                   \* question generator on its own: returned value
  genPc                     \* question generator on its own: position

vars == <<pagespeedKey, awsCreds, pc, data, audits, i, total_time_saved_admin,
          total_time_saved_manual, blocks, stErrors, ret, exception, netCalls,
          genCalls, adds, genIn, genOut, genPc>>

runVars == <<pagespeedKey, awsCreds, pc, data, audits, i, total_time_saved_admin,
             total_time_saved_manual, blocks, stErrors, ret, exception, netCalls,
             genCalls, adds>>

genVars == <<genIn, genOut, genPc>>

(***************************************************************************)
(* Bounds of the model.                                                    *)
(***************************************************************************)
MaxAudits == 2

MaxRespLen == 4

(***************************************************************************)
(* Static tables.                                                          *)
(***************************************************************************)
PRIORITY_MAPPING ==
  [k \in {"FCP", "LCP", "CLS", "TBT"} |->
     CASE k = "FCP" -> "High"
       [] k = "LCP" -> "Medium"
       [] k = "CLS" -> "Medium"
       [] k = "TBT" -> "Low"]

ADDRESSABLE_ISSUES ==
  [k \in {"modern-image-formats", "unminified-javascript", "render-blocking-resources"} |->
     CASE k = "modern-image-formats" ->
            << "Convert the images: Use an image conversion tool to parse the image URLs and convert the images to the WebP format.",
               "Update the Codebase: Replace the original image URLs with the WebP image URLs for improved performance." >>
       [] k = "unminified-javascript" ->
            << "1. Go to Stores > Configuration > Advanced > Developer > JavaScript Settings.",
               "2. Set Minify JavaScript Files to 'Yes'." >>
       [] k = "render-blocking-resources" ->
            << "Optimize loading order:",
               "1. Go to Stores > Configuration > Advanced > Developer > JavaScript Settings.",
               "2. Enable 'Deferred JavaScript Loading' if available." >>]

(***************************************************************************)
(* Inputs: the audit entries an API response may carry.                    *)
(***************************************************************************)
AuditIds == {"modern-image-formats", "render-blocking-resources", "unknown-audit", "uses-long-cache-ttl"}

\* the title of each entry; as in a Lighthouse report, no two audits share a title
TitleOf(id) ==
  CASE id = "modern-image-formats"      -> "Serve images in next-gen formats"
    [] id = "render-blocking-resources" -> "Eliminate render-blocking resources"
    [] id = "unknown-audit"             -> "Unknown audit"
    [] id = "uses-long-cache-ttl"       -> "Serve static assets with an efficient cache policy"

\* metricSavings of an entry: key absent, or the items of the dict.
MetricSavingsOptions ==
  { [present |-> FALSE, items |-> << >>],
    [present |-> TRUE,  items |-> << >>],
    [present |-> TRUE,  items |-> << <<"CLS", 0>>, <<"TBT", 0>> >>],
    [present |-> TRUE,  items |-> << <<"LCP", 500>> >>],
    [present |-> TRUE,  items |-> << <<"FCP", 200>> >>],
    [present |-> TRUE,  items |-> << <<"FCP", 200>>, <<"LCP", 300>> >>] }

AuditItems ==
  { [id |-> a, title |-> TitleOf(a), hasMetricSavings |-> m.present, metricSavings |-> m.items] :
      a \in AuditIds, m \in MetricSavingsOptions }

AuditMaps ==
  UNION { { s \in [1..n -> AuditItems] :
              \A p, q \in 1..n : p # q => s[p].id # s[q].id } : n \in 0..MaxAudits }

(***************************************************************************)
(* fetch_json_from_api: the values it can return.                          *)
(***************************************************************************)
JsonReport(a) == [type |-> "dict", empty |-> FALSE, text |-> "", audits |-> a]

EmptyJson == [type |-> "dict", empty |-> TRUE, text |-> "", audits |-> << >>]

FetchError(t) == [type |-> "str", empty |-> FALSE, text |-> t, audits |-> << >>]

fetch_json_from_api ==
  { JsonReport(a) : a \in AuditMaps }
    \cup { EmptyJson }
    \cup { FetchError("Error fetching data: <err>"),
           FetchError("Failed to decode JSON. Please check the API response.") }

\* Python truth value of data.
Truthy(d) == IF d.type = "str" THEN d.text # "" ELSE ~d.empty

(***************************************************************************)
(* Helpers of the classifier.                                              *)
(***************************************************************************)
\* audit_data.get("metricSavings", {})
GetMetricSavings(e) == IF e.hasMetricSavings THEN e.metricSavings ELSE << >>

\* metric_savings.values()
Values(ms) == [k \in 1..Len(ms) |-> ms[k][2]]

\* any(...)
AnyTrue(vals) == \E k \in 1..Len(vals) : vals[k] # 0

RECURSIVE Sum(_)
Sum(vals) == IF vals = << >> THEN 0 ELSE Head(vals) + Sum(Tail(vals))

\* variant of Skipped: an entry is skipped only when it has no metric at all
SkippedOnlyWhenEmpty(e) == GetMetricSavings(e) = << >>

\* "if not any(metric_savings.values()): continue" (lines 143 and 160)
Skipped(e) == ~AnyTrue(Values(GetMetricSavings(e)))

\* sum(metric_savings.values())
Savings(e) == Sum(Values(GetMetricSavings(e)))

\* PRIORITY_MAPPING.get(audit_id, "Unknown")
Priority(audit_id) ==
  IF audit_id \in DOMAIN PRIORITY_MAPPING THEN PRIORITY_MAPPING[audit_id] ELSE "Unknown"

\* variant of FirstLoopAddressable: the branch is never taken
FirstLoopNeverAddressable(audit_id) == FALSE

\* "if audit_id in ADDRESSABLE_ISSUES" of the first loop (line 149)
FirstLoopAddressable(audit_id) == audit_id \in DOMAIN ADDRESSABLE_ISSUES

\* variant of SecondLoopContinues: the continue is missing
SecondLoopNeverContinues(audit_id) == FALSE

\* "if audit_id in ADDRESSABLE_ISSUES: continue" of the second loop (line 166)
SecondLoopContinues(audit_id) == audit_id \in DOMAIN ADDRESSABLE_ISSUES

\* f"{x:.2f}" of a whole number of milliseconds
FormatMs(x) == [whole |-> x, cents |-> 0]

\* f"{x / 1000:.2f}" of a whole number of milliseconds.  The savings of the
\* model are multiples of 100, so x / 1000 has at most two decimals and the
\* format rounds nothing away.
FormatSeconds(x) ==
  LET h == x \div 10
  IN  [whole |-> h \div 100, cents |-> h % 100]

\* variant of TextArea: the new element is put above the earlier ones
TextAreaOnTop(shown, value) == <<value>> \o shown

\* st.text_area("Audit Results", value=..., height=200)
TextArea(shown, value) == Append(shown, value)

\* the result string of the first loop (lines 151-155)
AddressableBlock(audit_id, e) ==
  [kind      |-> "addressable",
   title     |-> e.title,
   priority  |-> Priority(audit_id),
   savings   |-> FormatMs(Savings(e)),
   solutions |-> ADDRESSABLE_ISSUES[audit_id]]

\* the result string of the second loop (lines 171-174)
ManualBlock(audit_id, e, unknown_question) ==
  [kind     |-> "manual",
   title    |-> e.title,
   priority |-> Priority(audit_id),
   savings  |-> FormatMs(Savings(e)),
   question |-> unknown_question]

\* combined_savings (lines 177-181)
SummaryBlock(admin, manual) ==
  [kind     |-> "summary",
   admin    |-> FormatSeconds(admin),
   manual   |-> FormatSeconds(manual),
   combined |-> FormatSeconds(admin + manual)]

(***************************************************************************)
(* generate_questions.                                                     *)
(***************************************************************************)
Chars == {" ", "a", "\n"}

\* the texts llm.invoke(prompt).content may be
Contents == UNION { [1..n -> Chars] : n \in 0..MaxRespLen }

\* outcome of llm.invoke: an exception, or a response
Raised(e) == [raised |-> TRUE, exc |-> e, content |-> << >>]

Responded(c) == [raised |-> FALSE, exc |-> "", content |-> c]

\* every outcome of llm.invoke, up to the length bound of the text
AllOutcomes == { Raised("EndpointConnectionError") } \cup { Responded(c) : c \in Contents }

\* the responses met during a run: no line, one line, two lines, and lines
\* with blanks around them and an empty line between them
RunContents ==
  { << >>,
    << "a" >>,
    << "a", "\n", "a" >>,
    << " ", "a", "\n", "\n", "a", " ", "a", "\n" >> }

\* the outcomes of llm.invoke during a run; without credentials every call fails
LlmOutcomes(creds) ==
  IF creds
    THEN { Raised("EndpointConnectionError") } \cup { Responded(c) : c \in RunContents }
    ELSE { Raised("NoCredentialsError") }

\* str.splitlines()
RECURSIVE SplitFrom(_, _, _)
SplitFrom(s, cur, acc) ==
  IF s = << >>
    THEN IF cur = << >> THEN acc ELSE Append(acc, cur)
    ELSE IF Head(s) = "\n"
           THEN SplitFrom(Tail(s), << >>, Append(acc, cur))
           ELSE SplitFrom(Tail(s), Append(cur, Head(s)), acc)

SplitLines(s) == SplitFrom(s, << >>, << >>)

\* str.strip()
RECURSIVE LStrip(_)
LStrip(s) == IF s # << >> /\ Head(s) \in {" ", "\n"} THEN LStrip(Tail(s)) ELSE s

RECURSIVE RStrip(_)
RStrip(s) ==
  IF s # << >> /\ s[Len(s)] \in {" ", "\n"} THEN RStrip(SubSeq(s, 1, Len(s) - 1)) ELSE s

Strip(s) == LStrip(RStrip(s))

\* the for loop of lines 119-121: one {line.strip()} per non-empty line
RECURSIVE Questions(_)
Questions(lines) ==
  IF lines = << >> THEN << >>
  ELSE IF Strip(Head(lines)) # << >>
         THEN << {Strip(Head(lines))} >> \o Questions(Tail(lines))
         ELSE Questions(Tail(lines))

\* the value of the except branch (line 128): [{"error": f"Error generating questions: {e}"}]
GenerationError(e) ==
  [kind |-> "list", elems |-> {}, error |-> [prefix |-> "Error generating questions: ", exc |-> e]]

NoError == [prefix |-> "", exc |-> ""]

\* an exception that leaves generate_questions
Propagated(e) == [kind |-> "raise", elems |-> {}, error |-> [prefix |-> "", exc |-> e]]

\* variant of generate_questions: no except branch
generate_questions_uncaught(outcome) ==
  IF outcome.raised
    THEN Propagated(outcome.exc)
    ELSE LET questions == Questions(SplitLines(outcome.content))
         IN  IF Len(questions) >= 2
               THEN [kind |-> "set", elems |-> questions[2], error |-> NoError]
               ELSE Propagated("IndexError: list index out of range")

\* lines 111-128; questions[1] is the second element of the list
generate_questions(outcome) ==
  IF outcome.raised
    THEN GenerationError(outcome.exc)
    ELSE LET questions == Questions(SplitLines(outcome.content))
         IN  IF Len(questions) >= 2
               THEN [kind |-> "set", elems |-> questions[2], error |-> NoError]
               ELSE GenerationError("list index out of range")

\* variant of Topic: the audit id is passed
TopicIsAuditId(audit_id, e) == audit_id

\* audit_data.get("title"), the argument of generate_questions (line 170)
Topic(audit_id, e) == e.title

(***************************************************************************)
(* The script run.                                                         *)
(***************************************************************************)
\* data before the fetch has returned
Unfetched == [type |-> "none", empty |-> TRUE, text |-> "", audits |-> << >>]

Init ==
  /\ pagespeedKey \in BOOLEAN
  /\ awsCreds \in BOOLEAN
  /\ pc = "idle"
  /\ data = Unfetched
  /\ audits = << >>
  /\ i = 1
  /\ total_time_saved_admin = 0
  /\ total_time_saved_manual = 0
  /\ blocks = << >>
  /\ stErrors = << >>
  /\ ret = "unset"
  /\ exception = ""
  /\ netCalls = << >>
  /\ genCalls = << >>
  /\ adds = << >>
  /\ genIn = Raised("NoCredentialsError")
  /\ genOut = GenerationError("")
  /\ genPc = "off"

\* lines 188-193: the "Run Audit" button; only PAGESPEED_API_KEY is tested
RunAudit ==
  /\ pc = "idle"
  /\ IF ~pagespeedKey
       THEN /\ stErrors' = Append(stErrors, "PAGESPEED_API_KEY is not set. Please configure it in your environment.")
            /\ pc' = "stopped"
       ELSE /\ pc' = "parse"
            /\ UNCHANGED stErrors
  /\ UNCHANGED <<pagespeedKey, awsCreds, data, audits, i, total_time_saved_admin,
                 total_time_saved_manual, blocks, ret, exception, netCalls,
                 genCalls, adds, genVars>>

\* lines 132-139: the fetch, the test of data, and the initialisations
ParseStart ==
  /\ pc = "parse"
  /\ \E d \in fetch_json_from_api :
       /\ data' = d
       /\ netCalls' = Append(netCalls, "GET")
       /\ IF ~Truthy(d)
            THEN /\ ret' = "No data fetched from API."
                 /\ pc' = "done"
                 /\ UNCHANGED <<audits, exception>>
            ELSE IF d.type = "str"
                   \* data.get on a str
                   THEN /\ exception' = "AttributeError: 'str' object has no attribute 'get'"
                        /\ pc' = "crashed"
                        /\ UNCHANGED <<audits, ret>>
                   ELSE /\ audits' = d.audits
                        /\ pc' = "pass1"
                        /\ UNCHANGED <<ret, exception>>
  /\ i' = 1
  /\ total_time_saved_admin' = 0
  /\ total_time_saved_manual' = 0
  /\ UNCHANGED <<pagespeedKey, awsCreds, blocks, stErrors, genCalls, adds, genVars>>

\* lines 141-156: one iteration of the first loop
Pass1Step ==
  /\ pc = "pass1"
  /\ i <= Len(audits)
  /\ LET audit_data == audits[i]
         audit_id   == audit_data.id
     IN  IF ~Skipped(audit_data) /\ FirstLoopAddressable(audit_id)
           THEN /\ total_time_saved_admin' = total_time_saved_admin + Savings(audit_data)
                /\ adds' = Append(adds, [total |-> "admin", id |-> audit_id, savings |-> Savings(audit_data)])
                /\ blocks' = TextArea(blocks, AddressableBlock(audit_id, audit_data))
           ELSE UNCHANGED <<total_time_saved_admin, adds, blocks>>
  /\ i' = i + 1
  /\ UNCHANGED <<pagespeedKey, awsCreds, pc, data, audits, total_time_saved_manual,
                 stErrors, ret, exception, netCalls, genCalls, genVars>>

\* the first loop is exhausted; the second loop starts (line 158)
Pass1End ==
  /\ pc = "pass1"
  /\ i > Len(audits)
  /\ pc' = "pass2"
  /\ i' = 1
  /\ UNCHANGED <<pagespeedKey, awsCreds, data, audits, total_time_saved_admin,
                 total_time_saved_manual, blocks, stErrors, ret, exception, netCalls,
                 genCalls, adds, genVars>>

\* lines 158-175: one iteration of the second loop, the call of
\* generate_questions included
Pass2Step ==
  /\ pc = "pass2"
  /\ i <= Len(audits)
  /\ LET audit_data == audits[i]
         audit_id   == audit_data.id
     IN  IF Skipped(audit_data) \/ SecondLoopContinues(audit_id)
           THEN /\ i' = i + 1
                /\ UNCHANGED <<pc, total_time_saved_manual, adds, blocks, netCalls,
                               genCalls, exception>>
           ELSE \E outcome \in LlmOutcomes(awsCreds) :
                  LET unknown_question == generate_questions(outcome)
                  IN  /\ total_time_saved_manual' = total_time_saved_manual + Savings(audit_data)
                      /\ adds' = Append(adds, [total |-> "manual", id |-> audit_id, savings |-> Savings(audit_data)])
                      /\ genCalls' = Append(genCalls, [topic |-> Topic(audit_id, audit_data), raised |-> outcome.raised])
                      \* without credentials the request is refused before it is sent
                      /\ netCalls' = IF awsCreds THEN Append(netCalls, "LLM") ELSE netCalls
                      /\ IF unknown_question.kind = "raise"
                           \* an exception leaving generate_questions leaves parse_lighthouse_json too
                           THEN /\ exception' = unknown_question.error.exc
                                /\ pc' = "crashed"
                                /\ UNCHANGED <<blocks, i>>
                           ELSE /\ blocks' = TextArea(blocks, ManualBlock(audit_id, audit_data, unknown_question))
                                /\ i' = i + 1
                                /\ UNCHANGED <<pc, exception>>
  /\ UNCHANGED <<pagespeedKey, awsCreds, data, audits, total_time_saved_admin,
                 stErrors, ret, genVars>>

\* lines 177-182: the summary; the function then returns None
Summary ==
  /\ pc = "pass2"
  /\ i > Len(audits)
  /\ blocks' = TextArea(blocks, SummaryBlock(total_time_saved_admin, total_time_saved_manual))
  /\ ret' = "None"
  /\ pc' = "done"
  /\ UNCHANGED <<pagespeedKey, awsCreds, data, audits, i, total_time_saved_admin,
                 total_time_saved_manual, stErrors, exception, netCalls, genCalls,
                 adds, genVars>>

Next == RunAudit \/ ParseStart \/ Pass1Step \/ Pass1End \/ Pass2Step \/ Summary

Spec == Init /\ [][Next]_vars

\* the run is straight-line code: once started, each step is taken
FairSpec == Spec /\ WF_vars(ParseStart \/ Pass1Step \/ Pass1End \/ Pass2Step \/ Summary)

(***************************************************************************)
(* generate_questions on its own, over every outcome of llm.invoke.        *)
(***************************************************************************)
GenInit ==
  /\ pagespeedKey = TRUE
  /\ awsCreds = TRUE
  /\ pc = "idle"
  /\ data = Unfetched
  /\ audits = << >>
  /\ i = 1
  /\ total_time_saved_admin = 0
  /\ total_time_saved_manual = 0
  /\ blocks = << >>
  /\ stErrors = << >>
  /\ ret = "unset"
  /\ exception = ""
  /\ netCalls = << >>
  /\ genCalls = << >>
  /\ adds = << >>
  /\ genIn \in AllOutcomes
  /\ genOut = GenerationError("")
  /\ genPc = "call"

GenCall ==
  /\ genPc = "call"
  /\ genOut' = generate_questions(genIn)
  /\ genPc' = "returned"
  /\ UNCHANGED <<genIn, runVars>>

GenNext == GenCall

GenSpec == GenInit /\ [][GenNext]_vars

(***************************************************************************)
(* Properties.  The definitions below state what the specification says,   *)
(* in terms of the inputs and of what the run has produced.                *)
(***************************************************************************)
\* the run went through both loops and the summary
Finished == pc = "done" /\ ret = "None"

\* the run has ended, one way or another
Ended == pc \in {"done", "crashed", "stopped"}

\* an entry with at least one nonzero metricSavings value
HasNonzeroSaving(e) ==
  /\ e.hasMetricSavings
  /\ \E k \in 1..Len(e.metricSavings) : e.metricSavings[k][2] # 0

RECURSIVE SavingOf(_)
SavingOf(items) == IF items = << >> THEN 0 ELSE items[1][2] + SavingOf(Tail(items))

AddressableKeys == {"modern-image-formats", "unminified-javascript", "render-blocking-resources"}

IsAuditBlock(b) == b.kind # "summary"

IsManualBlock(b) == b.kind = "manual"

IsManualAdd(a) == a.total = "manual"

AuditBlocks == SelectSeq(blocks, IsAuditBlock)

ManualBlocks == SelectSeq(blocks, IsManualBlock)

ManualAdds == SelectSeq(adds, IsManualAdd)

TitlesOf(s) == [k \in 1..Len(s) |-> s[k].title]

NonSkipped(e) == HasNonzeroSaving(e)

NonSkippedAddressable(e) == HasNonzeroSaving(e) /\ e.id \in AddressableKeys

NonSkippedManual(e) == HasNonzeroSaving(e) /\ e.id \notin AddressableKeys

\* C1: after a fetch failure (data is an error text) the run ends with the
\* fixed message "No data fetched from API." and processes no audit: no block,
\* no change of a total, no call of the question generator.
C1_FetchFailureGivesNoData ==
  data.type = "str" =>
    /\ pc = "done"
    /\ ret = "No data fetched from API."
    /\ exception = ""
    /\ blocks = << >>
    /\ total_time_saved_admin = 0
    /\ total_time_saved_manual = 0
    /\ genCalls = << >>

ExampleAudits ==
  << [id |-> "modern-image-formats", title |-> TitleOf("modern-image-formats"),
      hasMetricSavings |-> TRUE, metricSavings |-> << <<"LCP", 500>> >>],
     [id |-> "unknown-audit", title |-> TitleOf("unknown-audit"),
      hasMetricSavings |-> TRUE, metricSavings |-> << <<"FCP", 200>> >>] >>

\* C2: for the report {modern-image-formats: {LCP: 500}, unknown-audit:
\* {FCP: 200}} the run shows one addressable block (priority Medium, 500.00 ms,
\* the two remediation lines), one manual block (priority Unknown, 200.00 ms,
\* a question) and a summary of 0.50 s, 0.20 s and 0.70 s.
C2_ExampleReport ==
  (Finished /\ audits = ExampleAudits) =>
    /\ Len(blocks) = 3
    /\ blocks[1].kind = "addressable"
    /\ blocks[1].priority = "Medium"
    /\ blocks[1].savings = [whole |-> 500, cents |-> 0]
    /\ blocks[1].solutions =
         << "Convert the images: Use an image conversion tool to parse the image URLs and convert the images to the WebP format.",
            "Update the Codebase: Replace the original image URLs with the WebP image URLs for improved performance." >>
    /\ blocks[2].kind = "manual"
    /\ blocks[2].priority = "Unknown"
    /\ blocks[2].savings = [whole |-> 200, cents |-> 0]
    /\ blocks[3] = [kind |-> "summary",
                    admin |-> [whole |-> 0, cents |-> 50],
                    manual |-> [whole |-> 0, cents |-> 20],
                    combined |-> [whole |-> 0, cents |-> 70]]

RECURSIVE ExpectedTotal(_)
ExpectedTotal(as) ==
  IF as = << >> THEN 0
  ELSE (IF HasNonzeroSaving(Head(as)) THEN SavingOf(Head(as).metricSavings) ELSE 0)
         + ExpectedTotal(Tail(as))

\* C3: at the end of a run the two totals add up to the sum of the savings of
\* all non-skipped audits, whatever their classification.
C3_TotalsAddUp ==
  Finished => total_time_saved_admin + total_time_saved_manual = ExpectedTotal(audits)

C3_Witness ==
  /\ Finished
  /\ total_time_saved_admin = 500
  /\ total_time_saved_manual = 200

\* C4: an entry whose metricSavings is missing, empty or all zero leaves no
\* trace (no block, no call of the question generator, no addition to a
\* total), and every entry with a nonzero value is processed.
C4_SkippedLeaveNoTrace ==
  /\ \A k \in 1..Len(AuditBlocks) :
       \E n \in 1..Len(audits) : HasNonzeroSaving(audits[n]) /\ audits[n].title = AuditBlocks[k].title
  /\ \A k \in 1..Len(genCalls) :
       \E n \in 1..Len(audits) : HasNonzeroSaving(audits[n]) /\ audits[n].title = genCalls[k].topic
  /\ \A k \in 1..Len(adds) :
       \E n \in 1..Len(audits) : HasNonzeroSaving(audits[n]) /\ audits[n].id = adds[k].id
  /\ Finished =>
       \A n \in 1..Len(audits) :
         HasNonzeroSaving(audits[n]) =>
           /\ \E k \in 1..Len(AuditBlocks) : AuditBlocks[k].title = audits[n].title
           /\ \E k \in 1..Len(adds) : adds[k].id = audits[n].id

C4_Witness ==
  /\ Finished
  /\ Len(audits) = 2
  /\ audits[1].hasMetricSavings
  /\ audits[1].metricSavings = << <<"CLS", 0>>, <<"TBT", 0>> >>
  /\ HasNonzeroSaving(audits[2])
  /\ Len(AuditBlocks) = 1

\* C5: generate_questions is called exactly once, with the title as topic,
\* for every non-skipped audit whose id is not in AddressableIssues, and for
\* no other: the calls made so far are those of the audits the second loop
\* has passed, in order.
C5_OneCallPerManualAudit ==
  /\ pc \in {"idle", "parse", "pass1"} => genCalls = << >>
  /\ (pc = "pass2" \/ Finished) =>
       [k \in 1..Len(genCalls) |-> genCalls[k].topic]
         = TitlesOf(SelectSeq(SubSeq(audits, 1, i - 1), NonSkippedManual))

C5_Witness ==
  /\ Finished
  /\ Len(genCalls) = 2
  /\ genCalls[1].topic # genCalls[2].topic

\* C6 as stated: the blocks follow the order of the audits in the map,
\* addressable and manual alike.
C6_MapOrder ==
  Finished => TitlesOf(AuditBlocks) = TitlesOf(SelectSeq(audits, NonSkipped))

\* C6 as amended: the blocks of the addressable audits come first, in map
\* order, then the blocks of the manual audits, in map order.
C6_AddressableThenManual ==
  Finished =>
    TitlesOf(AuditBlocks) =
      TitlesOf(SelectSeq(audits, NonSkippedAddressable)) \o TitlesOf(SelectSeq(audits, NonSkippedManual))

C6_Witness ==
  /\ Finished
  /\ Len(audits) = 2
  /\ NonSkippedManual(audits[1])
  /\ NonSkippedAddressable(audits[2])

RECURSIVE FirstNonEmpty(_)
FirstNonEmpty(lines) ==
  IF lines = << >> THEN << >>
  ELSE IF Strip(Head(lines)) # << >> THEN Strip(Head(lines)) ELSE FirstNonEmpty(Tail(lines))

\* C7: for a response with at least one non-empty line, generate_questions
\* returns the first non-empty line of the response, stripped.
C7_FirstNonEmptyLine ==
  (genPc = "returned" /\ ~genIn.raised /\ FirstNonEmpty(SplitLines(genIn.content)) # << >>) =>
    /\ genOut.kind = "set"
    /\ genOut.elems = {FirstNonEmpty(SplitLines(genIn.content))}

C8_Captured ==
  \A k \in 1..Len(genCalls) :
    genCalls[k].raised =>
      /\ pc # "crashed"
      /\ exception = ""
      /\ Len(ManualBlocks) >= k
      /\ ManualBlocks[k].title = genCalls[k].topic
      /\ ManualBlocks[k].question.kind = "list"
      /\ ManualBlocks[k].question.error.prefix = "Error generating questions: "
      /\ ManualBlocks[k].question.error.exc \in {"EndpointConnectionError", "NoCredentialsError"}
      /\ Len(ManualAdds) >= k
      /\ TitleOf(ManualAdds[k].id) = genCalls[k].topic
      /\ ManualAdds[k].savings > 0
      /\ total_time_saved_manual >= ManualAdds[k].savings

C8_AllProcessed ==
  /\ Finished
  /\ blocks[Len(blocks)].kind = "summary"
  /\ Len(AuditBlocks) = Len(SelectSeq(audits, NonSkipped))

\* C8: a failure of the model backend never aborts the run: it is returned as
\* an error value, shown in the audit's block in place of the question, the
\* audit's savings are still added to the manual total, and the run goes on
\* through the remaining audits to the summary.
C8_FailureDoesNotAbort ==
  /\ []C8_Captured
  /\ (\E k \in 1..Len(genCalls) : genCalls[k].raised) ~> C8_AllProcessed

C8_Witness ==
  /\ Finished
  /\ Len(genCalls) = 2
  /\ genCalls[1].raised

\* C9: when either secret is absent, a triggered run shows a configuration
\* error and issues no outbound request.
C9_MissingSecretNoRequest ==
  (~pagespeedKey \/ ~awsCreds) =>
    /\ netCalls = << >>
    /\ Ended => stErrors # << >>

CountAdds(id, total) == Cardinality({k \in 1..Len(adds) : adds[k].id = id /\ adds[k].total = total})

CountBlocks(title, kind) ==
  Cardinality({k \in 1..Len(blocks) : blocks[k].kind = kind /\ blocks[k].title = title})

RECURSIVE ExpectedClassTotal(_, _)
ExpectedClassTotal(as, addressable) ==
  IF as = << >> THEN 0
  ELSE (IF HasNonzeroSaving(Head(as)) /\ ((Head(as).id \in AddressableKeys) = addressable)
          THEN SavingOf(Head(as).metricSavings) ELSE 0)
         + ExpectedClassTotal(Tail(as), addressable)

\* C10: every non-skipped audit gets exactly one block and its savings go to
\* exactly one total: the admin total iff its id is a key of
\* AddressableIssues, the manual total otherwise.
C10_ExactlyOneClass ==
  Finished =>
    /\ \A n \in 1..Len(audits) :
         HasNonzeroSaving(audits[n]) =>
           LET e == audits[n]
               addressable == e.id \in AddressableKeys
           IN  /\ CountBlocks(e.title, "addressable") = (IF addressable THEN 1 ELSE 0)
               /\ CountBlocks(e.title, "manual") = (IF addressable THEN 0 ELSE 1)
               /\ CountAdds(e.id, "admin") = (IF addressable THEN 1 ELSE 0)
               /\ CountAdds(e.id, "manual") = (IF addressable THEN 0 ELSE 1)
    /\ total_time_saved_admin = ExpectedClassTotal(audits, TRUE)
    /\ total_time_saved_manual = ExpectedClassTotal(audits, FALSE)

C10_Witness ==
  /\ Finished
  /\ \E k \in 1..Len(adds) : adds[k].total = "admin"
  /\ \E k \in 1..Len(adds) : adds[k].total = "manual"

====
